---- MODULE Spec2Model ----
(***************************************************************************)
(* Model of the tomoscan bluesky/ophyd scripts:                            *)
(*   - EPACLaser (ophyd_laser_test.py): the pending-status list, its lock, *)
(*     trigger() on the sequencer thread and __pulse_id_cb on the          *)
(*     subscription (delivery) thread;                                     *)
(*   - the plans multi_scan, pulse_sync and passive_scan and the helper    *)
(*     wait_for_value, as generators that yield messages.                  *)
(***************************************************************************)
EXTENDS Integers, Sequences, FiniteSets, TLC

\* ------------------------------------------------------------------ bounds
\* number of trigger() calls explored
MaxTrig == 2
\* number of pulse_id updates (callback invocations) explored
MaxPulse == 3
\* largest number of detectors, steps and repeats a plan is called with
MaxDet == 2
MaxSteps == 3
MaxRepeats == 2
\* wait_for_value's timeout counted in poll intervals (timeout / poll_time is
\* 1000 or 10000 in the plans)
TimeoutPolls == 2
\* largest poll_time and timeout (in time units) of a direct wait_for_value call
MaxPoll == 2
MaxWait == 3

\* ------------------------------------------------------- program constants
\* DeviceStatus(self, timeout=2.0, ...): one tick of the model is 1.0 s
Timeout == 2
\* the values of pulse_id_delay explored (0.0 is the constructor's default)
PulseIdDelays == {0, 1}
\* the start and stop arguments explored
Starts == {0, 3}
Stops == {0, 6, -5}
\* the values the watched signals take (laser.power; adStatus: 0 idle, 2 acquiring)
PowerValues == {0, 1}
StatusValues == {0, 1, 2}

VARIABLES
    \* ---- EPACLaser
    pulse_id_delay,   \* self.pulse_id_delay
    pending,          \* self.__pending_status_list (status ids, in order)
    lock,             \* holder of self.__pending_status_lock
    tpc,              \* position of the sequencer thread inside trigger()
    cpc,              \* position of the delivery thread inside __pulse_id_cb
    drained,          \* the callback's local pending_status_list, not yet iterated
    pulses,           \* number of callback invocations so far
    st,               \* the DeviceStatus objects created so far
    \* ---- plans
    plan,             \* the plan being run (and the file of its copy)
    args,             \* its arguments: ndet, start, stop, steps, repeats
    ppc,              \* where the generator is: start, run, sleep, done, raised
    pidx,             \* the statement of the plan that yields next
    msgs,             \* the messages yielded so far (bps.sleep left out)
    result,           \* running, done, or the exception that left the plan
    sig,              \* value of the signal the plan watches
    welapsed,         \* time since the current wait_for_value began
    wsleeps,          \* bps.sleep messages yielded by the current wait_for_value
    wreads            \* reads of the signal since the last move: the first
                      \* one and each one that ended a wait_for_value

laserVars == <<pulse_id_delay, pending, lock, tpc, cpc, drained, pulses, st>>

scanVars == <<plan, args, ppc, pidx, msgs, result, sig, welapsed, wsleeps, wreads>>

vars == <<laserVars, scanVars>>

\* ------------------------------------------------------------- EPACLaser

\* number of list swaps (lines 92-93) performed so far
Swaps == IF cpc \in {"invoked", "locked"} THEN pulses - 1 ELSE pulses

\* a DeviceStatus built without a timeout never fails by itself
NewStatusNoTimeout(delay, p) ==
    [timeout |-> -1, settle |-> delay, age |-> 0, ext |-> FALSE,
     done |-> "no", finAge |-> -1, fin |-> <<>>,
     trigPulse |-> p, appInv |-> -1, appSwap |-> -1, takenBy |-> 0]

\* status = DeviceStatus(self, timeout=2.0, settle_time=self.pulse_id_delay)
\* history fields: trigPulse (callbacks invoked when trigger() was called),
\* appInv / appSwap (callbacks invoked / swaps done when it was appended),
\* takenBy (the callback whose swap took it), fin (the callbacks that called
\* set_finished on it), finAge (its age at the first set_finished).
NewStatus(delay, p) ==
    [timeout |-> Timeout, settle |-> delay, age |-> 0, ext |-> FALSE,
     done |-> "no", finAge |-> -1, fin |-> <<>>,
     trigPulse |-> p, appInv |-> -1, appSwap |-> -1, takenBy |-> 0]

\* the status the sequencer thread is currently registering
CurStatus == Len(st)

\* The status' timer thread, evaluated as a second passes: a status whose
\* timeout (timeout + settle_time after creation) has run out fails with a
\* timeout, otherwise one whose settle timer (started by set_finished) has
\* run out succeeds; a status that is done does not change any more.
Aged(r) ==
    IF r.done # "no" THEN r
    ELSE LET a == r.age + 1 IN
         [r EXCEPT !.age = a,
                   !.done = IF r.timeout # -1 /\ a >= r.timeout + r.settle
                            THEN "timeout"
                            ELSE IF r.ext /\ a >= r.finAge + r.settle
                                 THEN "ok"
                                 ELSE "no"]

\* s.set_finished() called by callback k: marks the external completion; the
\* status settles at once when settle_time is 0, by its settle timer otherwise.
\* A status that already timed out keeps its failure.
SetFinished(r, k) ==
    [r EXCEPT !.ext = TRUE,
              !.fin = Append(@, k),
              !.finAge = IF r.finAge = -1 THEN r.age ELSE @,
              !.done = IF r.done = "no" /\ r.settle = 0 THEN "ok" ELSE @]

\* the pulse_id signal updates: the subscription calls __pulse_id_cb (line 90)
PulseArrive ==
    /\ cpc = "idle"
    /\ pulses < MaxPulse
    /\ cpc' = "invoked"
    /\ pulses' = pulses + 1
    /\ UNCHANGED <<pulse_id_delay, pending, lock, tpc, drained, st, scanVars>>

\* with self.__pending_status_lock: (line 91)
CbAcquire ==
    /\ cpc = "invoked"
    /\ lock = "free"
    /\ lock' = "cb"
    /\ cpc' = "locked"
    /\ UNCHANGED <<pulse_id_delay, pending, tpc, drained, pulses, st, scanVars>>

\* a callback that takes only the first pending status
CbSwapOne ==
    /\ cpc = "locked"
    /\ drained' = IF pending = <<>> THEN <<>> ELSE <<Head(pending)>>
    /\ pending' = IF pending = <<>> THEN <<>> ELSE Tail(pending)
    /\ st' = [s \in DOMAIN st |->
                IF pending # <<>> /\ s = Head(pending)
                THEN [st[s] EXCEPT !.takenBy = pulses] ELSE st[s]]
    /\ cpc' = "swapped"
    /\ UNCHANGED <<pulse_id_delay, lock, tpc, pulses, scanVars>>

\* a callback that forgets to rebind the list to a new empty one
CbSwapNoReset ==
    /\ cpc = "locked"
    /\ drained' = pending
    /\ pending' = pending
    /\ st' = [s \in DOMAIN st |->
                IF \E i \in DOMAIN pending : pending[i] = s
                THEN [st[s] EXCEPT !.takenBy = pulses] ELSE st[s]]
    /\ cpc' = "swapped"
    /\ UNCHANGED <<pulse_id_delay, lock, tpc, pulses, scanVars>>

\* pending_status_list = self.__pending_status_list
\* self.__pending_status_list = []            (lines 92-93, under the lock)
CbSwap ==
    /\ cpc = "locked"
    /\ drained' = pending
    /\ pending' = <<>>
    /\ st' = [s \in DOMAIN st |->
                IF \E i \in DOMAIN pending : pending[i] = s
                THEN [st[s] EXCEPT !.takenBy = pulses] ELSE st[s]]
    /\ cpc' = "swapped"
    /\ UNCHANGED <<pulse_id_delay, lock, tpc, pulses, scanVars>>

\* a callback whose loop is still inside the with block
CbReleaseKeepLock ==
    /\ cpc = "swapped"
    /\ lock' = lock
    /\ cpc' = "loop"
    /\ UNCHANGED <<pulse_id_delay, pending, tpc, drained, pulses, st, scanVars>>

\* leaving the with block releases the lock (between lines 93 and 94)
CbRelease ==
    /\ cpc = "swapped"
    /\ lock' = "free"
    /\ cpc' = "loop"
    /\ UNCHANGED <<pulse_id_delay, pending, tpc, drained, pulses, st, scanVars>>

\* a callback whose loop ends after its first set_finished
CbSetFinishedFirstOnly ==
    /\ cpc = "loop"
    /\ drained # <<>>
    /\ LET s == Head(drained) IN
         /\ st' = [st EXCEPT ![s] = SetFinished(@, pulses)]
         /\ drained' = <<>>
         /\ cpc' = IF st[s].ext THEN "idle" ELSE "loop"
    /\ UNCHANGED <<pulse_id_delay, pending, lock, tpc, pulses, scanVars>>

\* for s in pending_status_list: s.set_finished()   (lines 94-95)
\* set_finished on a status whose completion was already initiated raises
\* InvalidState, which ends the callback.
CbSetFinished ==
    /\ cpc = "loop"
    /\ drained # <<>>
    /\ LET s == Head(drained) IN
         /\ st' = [st EXCEPT ![s] = SetFinished(@, pulses)]
         /\ IF st[s].ext
            THEN /\ drained' = <<>>
                 /\ cpc' = "idle"
            ELSE /\ drained' = Tail(drained)
                 /\ cpc' = "loop"
    /\ UNCHANGED <<pulse_id_delay, pending, lock, tpc, pulses, scanVars>>

\* a callback that, once its loop is exhausted, looks at the list again and
\* goes on with whatever was appended in the meantime
CbReturnRecheck ==
    /\ cpc = "loop"
    /\ drained = <<>>
    /\ IF pending = <<>>
       THEN /\ cpc' = "idle"
            /\ UNCHANGED <<pending, drained, st>>
       ELSE /\ cpc' = "loop"
            /\ drained' = pending
            /\ pending' = <<>>
            /\ st' = [s \in DOMAIN st |->
                        IF \E i \in DOMAIN pending : pending[i] = s
                        THEN [st[s] EXCEPT !.takenBy = pulses] ELSE st[s]]
    /\ UNCHANGED <<pulse_id_delay, lock, tpc, pulses, scanVars>>

\* the for loop is exhausted: __pulse_id_cb returns
CbReturn ==
    /\ cpc = "loop"
    /\ drained = <<>>
    /\ cpc' = "idle"
    /\ UNCHANGED <<pulse_id_delay, pending, lock, tpc, drained, pulses, st, scanVars>>

\* a trigger() that creates its status without a timeout
TrigCreateNoTimeout ==
    /\ tpc = "idle"
    /\ Len(st) < MaxTrig
    /\ st' = Append(st, NewStatusNoTimeout(pulse_id_delay, pulses))
    /\ tpc' = "created"
    /\ UNCHANGED <<pulse_id_delay, pending, lock, cpc, drained, pulses, scanVars>>

\* trigger() is called and builds its status (lines 98-99)
TrigCreate ==
    /\ tpc = "idle"
    /\ Len(st) < MaxTrig
    /\ st' = Append(st, NewStatus(pulse_id_delay, pulses))
    /\ tpc' = "created"
    /\ UNCHANGED <<pulse_id_delay, pending, lock, cpc, drained, pulses, scanVars>>

\* with self.__pending_status_lock: (line 100)
TrigAcquire ==
    /\ tpc = "created"
    /\ lock = "free"
    /\ lock' = "seq"
    /\ tpc' = "locked"
    /\ UNCHANGED <<pulse_id_delay, pending, cpc, drained, pulses, st, scanVars>>

\* self.__pending_status_list.append(status)   (line 101)
TrigAppend ==
    /\ tpc = "locked"
    /\ pending' = Append(pending, CurStatus)
    /\ st' = [st EXCEPT ![CurStatus].appInv = pulses,
                        ![CurStatus].appSwap = Swaps]
    /\ tpc' = "appended"
    /\ UNCHANGED <<pulse_id_delay, lock, cpc, drained, pulses, scanVars>>

\* the with block ends and trigger() returns the status (lines 101-103)
TrigReturn ==
    /\ tpc = "appended"
    /\ lock' = "free"
    /\ tpc' = "idle"
    /\ UNCHANGED <<pulse_id_delay, pending, cpc, drained, pulses, st, scanVars>>

\* one second passes
Tick ==
    /\ \E s \in DOMAIN st : st[s].done = "no"
    /\ st' = [s \in DOMAIN st |-> Aged(st[s])]
    /\ UNCHANGED <<pulse_id_delay, pending, lock, tpc, cpc, drained, pulses, scanVars>>

\* EPACLaser.__init__ (lines 83-88)
LaserInit ==
    /\ pulse_id_delay \in PulseIdDelays
    /\ pending = <<>>
    /\ lock = "free"
    /\ tpc = "idle"
    /\ cpc = "idle"
    /\ drained = <<>>
    /\ pulses = 0
    /\ st = <<>>

LaserNext ==
    \/ PulseArrive
    \/ CbAcquire
    \/ CbSwap
    \/ CbRelease
    \/ CbSetFinished
    \/ CbReturn
    \/ TrigCreate
    \/ TrigAcquire
    \/ TrigAppend
    \/ TrigReturn
    \/ Tick

\* ------------------------------------------------------------------ plans

\* Positions are exact rationals <<numerator, denominator>>, denominator > 0,
\* in lowest terms (the plans compute them in Python floats).
Abs(x) == IF x < 0 THEN -x ELSE x

RECURSIVE GCD(_, _)
GCD(a, b) == IF b = 0 THEN a ELSE GCD(b, a % b)

Norm(n, d) ==
    LET g == GCD(Abs(n), Abs(d))
        s == IF d < 0 THEN -1 ELSE 1
    IN  <<(s * n) \div g, (s * d) \div g>>

RatAdd(r, q) == Norm(r[1] * q[2] + q[1] * r[2], r[2] * q[2])
RatMul(r, q) == Norm(r[1] * q[1], r[2] * q[2])
RatLess(r, q) == r[1] * q[2] < q[1] * r[2]
Int2Rat(k) == <<k, 1>>

\* a step size that divides by steps instead of steps - 1
StepSizeBySteps(start, stop, steps) == Norm(stop - start, steps)

\* step_size = (stop - start) / (steps - 1)
StepSize(start, stop, steps) == Norm(stop - start, steps - 1)

\* start + i * step_size
Target(start, step_size, i) ==
    RatAdd(Int2Rat(start), RatMul(Int2Rat(i), step_size))

\* the devices
Det(d) == <<"det", d>>
motor == <<"motor", 0>>
laser == <<"laser", 0>>
pulse_ID == <<"pulse_ID", 0>>
NoDev == <<"none", 0>>

\* list(detectors)
Detectors(a) == [d \in 1..a.ndet |-> Det(d)]

\* the statements of a plan, each yielding one message (wait_for_value: a
\* sub-generator that yields bps.sleep messages)
Stmt(op, dev, pos, devs, val) ==
    [op |-> op, dev |-> dev, pos |-> pos, devs |-> devs, val |-> val,
     poll |-> 0, timeout |-> 0]
StageStmt(dev) == Stmt("stage", dev, <<0, 1>>, <<>>, 0)
UnstageStmt(dev) == Stmt("unstage", dev, <<0, 1>>, <<>>, 0)
OpenRunStmt == Stmt("open_run", NoDev, <<0, 1>>, <<>>, 0)
CloseRunStmt == Stmt("close_run", NoDev, <<0, 1>>, <<>>, 0)
CheckpointStmt == Stmt("checkpoint", NoDev, <<0, 1>>, <<>>, 0)
MvStmt(pos) == Stmt("mv", motor, pos, <<>>, 0)
ReadStmt(devs) == Stmt("trigger_and_read", NoDev, <<0, 1>>, devs, 0)
\* wait_for_value(signal, value, poll_time, timeout)
WaitCall(signal, value, poll_time, timeout) ==
    [Stmt("wait_for_value", signal, <<0, 1>>, <<>>, value)
        EXCEPT !.poll = poll_time, !.timeout = timeout]
\* the plans' calls: one poll interval is the time unit, timeout=10 is
\* TimeoutPolls of them
WaitStmt(signal, value) == WaitCall(signal, value, 1, TimeoutPolls)

RECURSIVE Flatten(_)
Flatten(ss) == IF ss = <<>> THEN <<>> ELSE Head(ss) \o Flatten(Tail(ss))

\* for det in detectors: yield from bps.stage(det)
StageAll(a) == [d \in 1..a.ndet |-> StageStmt(Det(d))]
\* for det in detectors: yield from bps.unstage(det)
UnstageAll(a) == [d \in 1..a.ndet |-> UnstageStmt(Det(d))]

\* the devices multi_scan reads: ophyd_laser_test.py line 133 lists the laser
\* before the motor, ophyd_hardware_setup.py line 70 the motor before the laser
MultiScanDevs(file, a) ==
    IF file = "hardware_setup"
    THEN Detectors(a) \o <<motor>> \o <<laser>>
    ELSE Detectors(a) \o <<laser>> \o <<motor>>

\* a multi_scan that moves the motor again before every repeat
MultiScanMoveEachRepeat(file, a) ==
    LET step_size == StepSize(a.start, a.stop, a.steps) IN
    StageAll(a)
    \o <<OpenRunStmt>>
    \o Flatten([k \in 1..a.steps |->
          <<CheckpointStmt>>
          \o Flatten([j \in 1..a.repeats |->
                <<MvStmt(Target(a.start, step_size, k - 1)),
                  ReadStmt(MultiScanDevs(file, a))>>])])
    \o <<CloseRunStmt>>
    \o UnstageAll(a)

\* multi_scan(detectors, motor, laser, start, stop, steps, repeats)
MultiScan(file, a) ==
    LET step_size == StepSize(a.start, a.stop, a.steps) IN
    StageAll(a)
    \o <<OpenRunStmt>>
    \o Flatten([k \in 1..a.steps |->
          <<CheckpointStmt>>
          \o <<MvStmt(Target(a.start, step_size, k - 1))>>
          \o [j \in 1..a.repeats |-> ReadStmt(MultiScanDevs(file, a))]])
    \o <<CloseRunStmt>>
    \o UnstageAll(a)

\* a pulse_sync that waits for power 1 only
PulseSyncNoLow(a) ==
    LET step_size == StepSize(a.start, a.stop, a.steps) IN
    StageAll(a)
    \o <<OpenRunStmt>>
    \o Flatten([k \in 1..a.steps |->
          <<CheckpointStmt,
            MvStmt(Target(a.start, step_size, k - 1)),
            WaitStmt(<<"power", 0>>, 1),
            ReadStmt(Detectors(a) \o <<motor>> \o <<laser>>)>>])
    \o <<CloseRunStmt>>
    \o UnstageAll(a)

\* pulse_sync(detectors, motor, laser, start, stop, steps)
PulseSync(a) ==
    LET step_size == StepSize(a.start, a.stop, a.steps) IN
    StageAll(a)
    \o <<OpenRunStmt>>
    \o Flatten([k \in 1..a.steps |->
          <<CheckpointStmt,
            MvStmt(Target(a.start, step_size, k - 1)),
            WaitStmt(<<"power", 0>>, 0),
            WaitStmt(<<"power", 0>>, 1),
            ReadStmt(Detectors(a) \o <<motor>> \o <<laser>>)>>])
    \o <<CloseRunStmt>>
    \o UnstageAll(a)

\* a passive_scan that does not wait for adStatus 0 after its read
PassiveScanNoIdle(a) ==
    LET step_size == StepSize(a.start, a.stop, a.steps) IN
    <<MvStmt(Int2Rat(a.start))>>
    \o <<OpenRunStmt>>
    \o StageAll(a)
    \o Flatten([k \in 1..a.steps |->
          <<MvStmt(Target(a.start, step_size, k - 1)),
            CheckpointStmt,
            WaitStmt(<<"adStatus", 0>>, 2),
            ReadStmt(<<motor>> \o <<pulse_ID>>)>>])
    \o UnstageAll(a)
    \o <<CloseRunStmt>>

\* passive_scan(detectors, motor, start, stop, steps, adStatus, pulse_ID)
PassiveScan(a) ==
    LET step_size == StepSize(a.start, a.stop, a.steps) IN
    <<MvStmt(Int2Rat(a.start))>>
    \o <<OpenRunStmt>>
    \o StageAll(a)
    \o Flatten([k \in 1..a.steps |->
          <<MvStmt(Target(a.start, step_size, k - 1)),
            CheckpointStmt,
            WaitStmt(<<"adStatus", 0>>, 2),
            ReadStmt(<<motor>> \o <<pulse_ID>>),
            WaitStmt(<<"adStatus", 0>>, 0)>>])
    \o UnstageAll(a)
    \o <<CloseRunStmt>>

Plans == {<<"multi_scan", "laser_test">>, <<"multi_scan", "hardware_setup">>,
          <<"pulse_sync", "inter_setup">>, <<"passive_scan", "inter_setup">>}

\* the statements of the plan being run
Prog ==
    IF plan[1] = "multi_scan" THEN MultiScan(plan[2], args)
    ELSE IF plan[1] = "pulse_sync" THEN PulseSync(args)
    ELSE IF plan[1] = "passive_scan" THEN PassiveScan(args)
    ELSE <<WaitCall(<<"signal", 0>>, args.value, args.poll_time, args.timeout)>>

Cur == Prog[pidx]

\* the generator goes on to its next statement, or returns after its last
Advance ==
    IF pidx = Len(Prog)
    THEN /\ ppc' = "done"
         /\ result' = "done"
         /\ pidx' = pidx
    ELSE /\ ppc' = "run"
         /\ result' = "running"
         /\ pidx' = pidx + 1

\* an exception thrown into (or raised by) the generator leaves it: none of
\* the plans has a try block
Raise(exc) ==
    /\ ppc' = "raised"
    /\ result' = exc
    /\ pidx' = pidx

Running(op) == ppc = "run" /\ Cur.op = op

\* a plan that moves the motor to start before it computes step_size
PlanStartAfterMove ==
    /\ ppc = "start"
    /\ IF args.steps = 1
       THEN /\ Raise("ZeroDivisionError")
            /\ msgs' = Append(msgs, MvStmt(Int2Rat(args.start)))
       ELSE /\ ppc' = "run"
            /\ pidx' = 1
            /\ result' = "running"
            /\ msgs' = msgs
    /\ UNCHANGED <<plan, args, sig, welapsed, wsleeps, wreads, laserVars>>

\* the plan is first iterated: step_size = (stop - start) / (steps - 1)
PlanStart ==
    /\ ppc = "start"
    /\ IF args.steps = 1
       THEN Raise("ZeroDivisionError")
       ELSE /\ ppc' = "run"
            /\ pidx' = 1
            /\ result' = "running"
    /\ UNCHANGED <<plan, args, msgs, sig, welapsed, wsleeps, wreads, laserVars>>

\* yield from bps.stage(det): staging succeeds or fails
Stage ==
    /\ Running("stage")
    /\ msgs' = Append(msgs, Cur)
    /\ \/ Advance
       \/ Raise("StagingFailure")
    /\ UNCHANGED <<plan, args, sig, welapsed, wsleeps, wreads, laserVars>>

\* yield from bps.open_run()
OpenRun ==
    /\ Running("open_run")
    /\ msgs' = Append(msgs, Cur)
    /\ Advance
    /\ UNCHANGED <<plan, args, sig, welapsed, wsleeps, wreads, laserVars>>

\* yield from bps.checkpoint()
Checkpoint ==
    /\ Running("checkpoint")
    /\ msgs' = Append(msgs, Cur)
    /\ Advance
    /\ UNCHANGED <<plan, args, sig, welapsed, wsleeps, wreads, laserVars>>

\* yield from mv(motor, ...): the motion completes or fails
Move ==
    /\ Running("mv")
    /\ msgs' = Append(msgs, Cur)
    /\ \/ Advance
       \/ Raise("MotionFailure")
    /\ wreads' = <<>>
    /\ UNCHANGED <<plan, args, sig, welapsed, wsleeps, laserVars>>

\* yield from bps.trigger_and_read(...): the reading is taken or fails
TriggerAndRead ==
    /\ Running("trigger_and_read")
    /\ msgs' = Append(msgs, Cur)
    /\ \/ Advance
       \/ Raise("TriggerFailure")
    /\ UNCHANGED <<plan, args, sig, welapsed, wsleeps, wreads, laserVars>>

\* yield from bps.close_run()
CloseRun ==
    /\ Running("close_run")
    /\ msgs' = Append(msgs, Cur)
    /\ Advance
    /\ UNCHANGED <<plan, args, sig, welapsed, wsleeps, wreads, laserVars>>

\* yield from bps.unstage(det)
Unstage ==
    /\ Running("unstage")
    /\ msgs' = Append(msgs, Cur)
    /\ Advance
    /\ UNCHANGED <<plan, args, sig, welapsed, wsleeps, wreads, laserVars>>

\* a wait_for_value that sleeps once before its first comparison
WfvEnterSleepFirst ==
    /\ Running("wait_for_value")
    /\ welapsed' = 0
    /\ wreads' = IF wreads = <<>> THEN Append(wreads, sig) ELSE wreads
    /\ ppc' = "sleep"
    /\ wsleeps' = 1
    /\ UNCHANGED <<pidx, result>>
    /\ UNCHANGED <<plan, args, msgs, sig, laserVars>>

\* wait_for_value is entered: expiration_time = time() + timeout;
\* current_value = signal.get(); the loop is skipped when it equals value,
\* otherwise the first bps.sleep(poll_time) is yielded
WfvEnter ==
    /\ Running("wait_for_value")
    /\ welapsed' = 0
    /\ wreads' = IF wreads = <<>> \/ sig = Cur.val THEN Append(wreads, sig) ELSE wreads
    /\ IF sig = Cur.val
       THEN /\ Advance
            /\ wsleeps' = 0
       ELSE /\ ppc' = "sleep"
            /\ wsleeps' = 1
            /\ UNCHANGED <<pidx, result>>
    /\ UNCHANGED <<plan, args, msgs, sig, laserVars>>

\* a wait_for_value that compares the time of the previous wake-up with the
\* deadline
WfvWakeLate ==
    /\ ppc = "sleep"
    /\ welapsed' = welapsed + Cur.poll
    /\ IF welapsed > Cur.timeout
       THEN /\ Raise("TimeoutError")
            /\ UNCHANGED <<wsleeps, wreads>>
       ELSE /\ wreads' = IF sig = Cur.val THEN Append(wreads, sig) ELSE wreads
            /\ IF sig = Cur.val
               THEN /\ Advance
                    /\ UNCHANGED wsleeps
               ELSE /\ ppc' = "sleep"
                    /\ wsleeps' = wsleeps + 1
                    /\ UNCHANGED <<pidx, result>>
    /\ UNCHANGED <<plan, args, msgs, sig, laserVars>>

\* bps.sleep(poll_time) returns after poll_time: TimeoutError if
\* time() > expiration_time, else current_value = signal.get() and the loop
\* condition is tested again
WfvWake ==
    /\ ppc = "sleep"
    /\ welapsed' = welapsed + Cur.poll
    /\ IF welapsed + Cur.poll > Cur.timeout
       THEN /\ Raise("TimeoutError")
            /\ UNCHANGED <<wsleeps, wreads>>
       ELSE /\ wreads' = IF sig = Cur.val THEN Append(wreads, sig) ELSE wreads
            /\ IF sig = Cur.val
               THEN /\ Advance
                    /\ UNCHANGED wsleeps
               ELSE /\ ppc' = "sleep"
                    /\ wsleeps' = wsleeps + 1
                    /\ UNCHANGED <<pidx, result>>
    /\ UNCHANGED <<plan, args, msgs, sig, laserVars>>

\* the watched signal (laser.power or adStatus) changes outside the plan
SignalValues == IF plan[1] = "pulse_sync" THEN PowerValues ELSE StatusValues

SignalChange ==
    /\ plan[1] \in {"pulse_sync", "passive_scan", "wait_for_value"}
    /\ ppc \in {"run", "sleep"}
    /\ \E v \in SignalValues \ {sig} : sig' = v
    /\ UNCHANGED <<plan, args, ppc, pidx, msgs, result, welapsed, wsleeps, wreads,
                   laserVars>>

\* a plan is created with its arguments; nothing has run yet
ScanInit ==
    /\ plan \in Plans
    /\ args \in [ndet : 0..MaxDet, start : Starts, stop : Stops,
                 steps : 1..MaxSteps, repeats : 1..MaxRepeats]
    /\ plan[1] # "multi_scan" => args.repeats = 1
    /\ ppc = "start"
    /\ pidx = 0
    /\ msgs = <<>>
    /\ result = "running"
    /\ sig \in SignalValues
    /\ plan[1] = "multi_scan" => sig = 0
    /\ welapsed = 0
    /\ wsleeps = 0
    /\ wreads = <<>>

\* wait_for_value called on its own, with a target value, a poll_time and a
\* timeout; nothing has run yet
WfvInit ==
    /\ plan = <<"wait_for_value", "inter_setup">>
    /\ args \in [value : StatusValues, poll_time : 1..MaxPoll, timeout : 0..MaxWait]
    /\ ppc = "run"
    /\ pidx = 1
    /\ msgs = <<>>
    /\ result = "running"
    /\ sig \in StatusValues
    /\ welapsed = 0
    /\ wsleeps = 0
    /\ wreads = <<>>

\* no plan is run
ScanIdle ==
    /\ plan = <<"none", "none">>
    /\ args = [ndet |-> 0, start |-> 0, stop |-> 0, steps |-> 0, repeats |-> 0]
    /\ ppc = "idle"
    /\ pidx = 0
    /\ msgs = <<>>
    /\ result = "idle"
    /\ sig = 0
    /\ welapsed = 0
    /\ wsleeps = 0
    /\ wreads = <<>>

\* the laser device exists and is left alone
LaserIdle ==
    /\ pulse_id_delay = 0
    /\ pending = <<>>
    /\ lock = "free"
    /\ tpc = "idle"
    /\ cpc = "idle"
    /\ drained = <<>>
    /\ pulses = 0
    /\ st = <<>>

ScanNext ==
    \/ PlanStart
    \/ Stage
    \/ OpenRun
    \/ Checkpoint
    \/ Move
    \/ TriggerAndRead
    \/ CloseRun
    \/ Unstage
    \/ WfvEnter
    \/ WfvWake
    \/ SignalChange

\* the EPACLaser device under trigger() calls and pulse callbacks
Init == LaserInit /\ ScanIdle

Next == LaserNext

Spec == Init /\ [][Next]_vars

\* The same device with its scheduling: a pulse_id update is delivered and
\* the delivery thread runs __pulse_id_cb to its end whenever it can (it
\* waits only for the lock), and trigger(), once it holds the lock, appends
\* and releases it. When trigger() is called and when it asks for the lock
\* is left open.
Fairness ==
    /\ WF_vars(PulseArrive)
    /\ WF_vars(CbAcquire)
    /\ WF_vars(CbSwap)
    /\ WF_vars(CbRelease)
    /\ WF_vars(CbSetFinished)
    /\ WF_vars(CbReturn)
    /\ WF_vars(TrigAppend)
    /\ WF_vars(TrigReturn)

LiveSpec == Init /\ [][Next]_vars /\ Fairness

\* one plan run by the RunEngine
InitScan == ScanInit /\ LaserIdle

ScanSpec == InitScan /\ [][ScanNext]_vars

\* one call of wait_for_value while the signal changes
WfvNext ==
    \/ WfvEnter
    \/ WfvWake
    \/ SignalChange

InitWfv == WfvInit /\ LaserIdle

WfvSpec == InitWfv /\ [][WfvNext]_vars

\* ---------------------------------------------------------------- claims

Range(q) == {q[i] : i \in DOMAIN q}
Appended == {s \in DOMAIN st : st[s].appSwap # -1}
\* callback invocation k has returned
Completed(k) == k < pulses \/ (k = pulses /\ cpc = "idle")
\* the statuses appended after swap k-1 and before swap k
Batch(k) == {s \in Appended : st[s].appSwap = k - 1}
\* the statuses on which callback k called set_finished
ResolvedBy(k) == {s \in DOMAIN st : k \in Range(st[s].fin)}
\* the number of set_finished calls callback k made on s
CallsBy(k, s) == Cardinality({i \in DOMAIN st[s].fin : st[s].fin[i] = k})

\* C1: the N statuses appended since the previous swap are all taken by one
\* callback invocation, which calls set_finished exactly once on each of them
\* and on no other status, and whose swap leaves the pending list empty; a
\* callback with no trigger() since the previous swap resolves nothing.
C1_DrainsWholeBatchOnce ==
    /\ cpc = "swapped" => pending = <<>>
    /\ Range(pending) = Batch(Swaps + 1)
    /\ \A k \in 1..pulses :
          Completed(k) =>
            /\ ResolvedBy(k) = Batch(k)
            /\ \A s \in Batch(k) : CallsBy(k, s) = 1

\* C1 witness: two trigger() calls, then a callback that finished both, then
\* a second callback with nothing appended in between, which resolved nothing.
C1_Witness ==
    /\ pulses = 2
    /\ cpc = "idle"
    /\ Cardinality(Batch(1)) = 2
    /\ ResolvedBy(1) = Batch(1)
    /\ Batch(2) = {}
    /\ ResolvedBy(2) = {}
    /\ pending = <<>>

\* C2: under every interleaving, an appended status is in exactly one place
\* (the pending list, the list a callback took and still iterates, or
\* finished), it is taken by the first callback whose swap follows its
\* append, and set_finished is called on it at most once.
C2_ExactlyOneDrain ==
    \A s \in Appended :
        LET inP == s \in Range(pending)
            inD == s \in Range(drained)
            fin == st[s].fin # <<>>
        IN  /\ (inP /\ ~inD /\ ~fin) \/ (~inP /\ inD /\ ~fin) \/ (~inP /\ ~inD /\ fin)
            /\ Cardinality({i \in DOMAIN pending : pending[i] = s}) <= 1
            /\ Cardinality({i \in DOMAIN drained : drained[i] = s}) <= 1
            /\ inP <=> st[s].takenBy = 0
            /\ st[s].takenBy # 0 => st[s].takenBy = st[s].appSwap + 1
            /\ Len(st[s].fin) <= 1
            /\ fin => st[s].fin[1] = st[s].takenBy

\* C2 witness: one status appended between a callback's invocation and its
\* swap and finished by that callback, another appended while that callback
\* was past its swap and finished by the next one.
C2_Witness ==
    \E s, u \in Appended :
        /\ st[s].appInv = 1 /\ st[s].appSwap = 0 /\ st[s].fin = <<1>>
        /\ st[u].appInv = 1 /\ st[u].appSwap = 1 /\ st[u].fin = <<2>>

\* C3: a status appended before callback k was invoked is finished by the
\* time callback k has returned; a status appended after swap k is never
\* finished by callback k, and stays in the pending list with set_finished
\* not called until a later callback swaps.
C3_DrainBoundary ==
    \A s \in Appended :
        /\ Completed(st[s].appInv + 1) =>
              st[s].fin # <<>> /\ st[s].fin[1] <= st[s].appInv + 1
        /\ \A i \in DOMAIN st[s].fin : st[s].fin[i] > st[s].appSwap
        /\ st[s].appSwap = Swaps =>
              s \in Range(pending) /\ ~st[s].ext /\ s \notin Range(drained)

\* C3 witness: the callback is still iterating the statuses it took while a
\* status appended after its swap waits in the pending list.
C3_Witness ==
    /\ cpc = "loop"
    /\ drained # <<>>
    /\ tpc = "idle"
    /\ \E s \in Appended :
          /\ st[s].appSwap = pulses
          /\ s \in Range(pending)
          /\ ~st[s].ext

\* C4 (as claimed): a status succeeds only through a callback whose pulse
\* arrived after trigger() was called.
C4_OnlyLaterPulse ==
    \A s \in DOMAIN st :
        st[s].done = "ok" => st[s].fin[1] > st[s].trigPulse

\* C5, state part: a status succeeds only if set_finished was called within
\* Timeout of its creation, none stays unresolved past timeout + settle_time,
\* a timeout happens exactly then; and a callback that has returned called
\* set_finished on every status it took, timed out or not.
C5_TimeoutState ==
    /\ \A s \in DOMAIN st :
          /\ st[s].done = "ok" => st[s].finAge \in 0..(Timeout - 1)
          /\ st[s].done = "no" => st[s].age < Timeout + st[s].settle
          /\ st[s].done = "timeout" => st[s].age = Timeout + st[s].settle
    /\ \A s \in DOMAIN st :
          st[s].takenBy # 0 /\ Completed(st[s].takenBy) =>
              st[s].takenBy \in Range(st[s].fin)

\* C5, step part: a status that is resolved keeps its outcome
C5_ResolvedOnce ==
    \A s \in DOMAIN st : st[s].done # "no" => st'[s].done = st[s].done

\* C5: without a pulse callback within the timeout window the status fails
\* with a timeout; a status resolves at most once, so a later pulse neither
\* turns the failure into a success nor keeps the callback from finishing
\* the other statuses it drained.
C5_TimeoutAndLatePulse == []C5_TimeoutState /\ [][C5_ResolvedOnce]_vars

\* C5 witness: a status timed out, a later callback took it together with a
\* younger status, called set_finished on both, and the younger one succeeded
\* while the first is still failed.
C5_Witness ==
    \E s, u \in DOMAIN st :
        /\ s < u
        /\ st[s].done = "timeout"
        /\ st[s].fin # <<>>
        /\ st[u].fin = st[s].fin
        /\ st[u].done = "ok"

\* ------------------------------------------------------- claims on plans

\* positions in msgs of the messages of one kind
Idx(op) == {k \in DOMAIN msgs : msgs[k].op = op}
\* how many messages of one kind were yielded for one device
Count(op, dev) == Cardinality({k \in Idx(op) : msgs[k].dev = dev})
\* the detectors whose stage message was yielded and did not fail
StagedDets ==
    {msgs[k].dev : k \in {n \in Idx("stage") :
                             ~(n = Len(msgs) /\ result = "StagingFailure")}}
IsMv(m) == m.op = "mv"
\* the targets of the moves made inside the step loop, in the order yielded
\* (passive_scan makes one more move, to start, before its loop)
LoopMoves ==
    LET mv == SelectSeq(msgs, IsMv)
        all == [k \in DOMAIN mv |-> mv[k].pos]
    IN  IF plan[1] = "passive_scan" /\ all # <<>> THEN Tail(all) ELSE all
\* the targets multi_scan / pulse_sync / passive_scan compute
Positions(start, stop, steps) ==
    [k \in 1..steps |-> Target(start, StepSize(start, stop, steps), k - 1)]

\* C6 (as claimed): when a plan has ended, normally or by an error raised in
\* the middle of the scan, it has yielded exactly one unstage for each
\* detector it staged.
C6_UnstageAlways ==
    result \in {"done", "MotionFailure", "TimeoutError", "TriggerFailure"} =>
        \A dev \in StagedDets : Count("unstage", dev) = 1

\* C7 (as claimed): a plan left by a TimeoutError or MotionFailure after its
\* open_run has yielded close_run.
C7_CloseRunOnError ==
    (result \in {"TimeoutError", "MotionFailure"} /\ Idx("open_run") # {}) =>
        Idx("close_run") # {}

\* C8 (as claimed): a plan that returned yielded exactly one open_run, then
\* exactly one close_run, every stage before the open_run and every unstage
\* after the close_run.
C8_StageOutsideRun ==
    result = "done" =>
        /\ Cardinality(Idx("open_run")) = 1
        /\ Cardinality(Idx("close_run")) = 1
        /\ \A o \in Idx("open_run"), c \in Idx("close_run") :
              /\ o < c
              /\ \A s \in Idx("stage") : s < o
              /\ \A u \in Idx("unstage") : u > c

\* C9 (as claimed): a plan left by a staging failure has yielded no open_run
\* and has unstaged every detector it had staged.
C9_StagingFailureClean ==
    result = "StagingFailure" =>
        /\ Idx("open_run") = {}
        /\ \A dev \in StagedDets : Count("unstage", dev) = 1

\* C10: for steps >= 2 the moves of the step loop go, in index order, to
\* start + i*step_size; the first is start, the last of a completed scan is
\* stop and there are steps of them; consecutive targets move in the
\* direction of stop - start; (0, 180, 5) gives 0, 45, 90, 135, 180.
C10_Positions ==
    /\ Positions(0, 180, 5) = <<<<0, 1>>, <<45, 1>>, <<90, 1>>, <<135, 1>>, <<180, 1>>>>
    /\ (plan[1] # "none" /\ args.steps >= 2) =>
          /\ \A k \in DOMAIN LoopMoves :
                LoopMoves[k] =
                  Target(args.start, StepSize(args.start, args.stop, args.steps), k - 1)
          /\ LoopMoves # <<>> => LoopMoves[1] = Int2Rat(args.start)
          /\ Len(LoopMoves) <= args.steps
          /\ result = "done" =>
                /\ Len(LoopMoves) = args.steps
                /\ LoopMoves[args.steps] = Int2Rat(args.stop)
          /\ \A k \in 1..(Len(LoopMoves) - 1) :
                /\ args.stop > args.start => RatLess(LoopMoves[k], LoopMoves[k + 1])
                /\ args.stop < args.start => RatLess(LoopMoves[k + 1], LoopMoves[k])
                /\ args.stop = args.start => LoopMoves[k + 1] = LoopMoves[k]

\* C10 witness: a completed three-step scan from 0 down to -5, through -5/2
C10_Witness ==
    /\ result = "done"
    /\ args.steps = 3
    /\ LoopMoves = <<<<0, 1>>, <<-5, 2>>, <<-5, 1>>>>

\* positions in msgs of the moves made inside the step loop
LoopMvIdx ==
    LET mv == Idx("mv") IN
    IF plan[1] = "passive_scan"
    THEN {k \in mv : \E n \in mv : n < k}
    ELSE mv

\* C11: a plan that returned has yielded steps * repeats trigger_and_read
\* messages (repeats is 1 but for multi_scan), all of them between its one
\* open_run and its one close_run, and one stage and one unstage per
\* detector; at any time the k-th trigger_and_read comes after exactly
\* ceil(k / repeats) moves of the loop, so after the move to its position
\* and with no move between the repeats at one position.
C11_ReadsPerStep ==
    plan[1] \in {"multi_scan", "pulse_sync", "passive_scan"} =>
        /\ \A r \in Idx("trigger_and_read") :
              LET k == Cardinality({q \in Idx("trigger_and_read") : q <= r})
              IN  Cardinality({n \in LoopMvIdx : n < r})
                    = ((k - 1) \div args.repeats) + 1
        /\ result = "done" =>
              /\ Cardinality(Idx("trigger_and_read")) = args.steps * args.repeats
              /\ Cardinality(Idx("open_run")) = 1
              /\ Cardinality(Idx("close_run")) = 1
              /\ \A r \in Idx("trigger_and_read") :
                    \A o \in Idx("open_run"), c \in Idx("close_run") : o < r /\ r < c
              /\ \A d \in 1..args.ndet :
                    Count("stage", Det(d)) = 1 /\ Count("unstage", Det(d)) = 1

\* C11 witness: a completed multi_scan of three steps with two repeats and
\* two detectors
C11_Witness ==
    /\ result = "done"
    /\ plan[1] = "multi_scan"
    /\ args.steps = 3
    /\ args.repeats = 2
    /\ args.ndet = 2
    /\ Cardinality(Idx("trigger_and_read")) = 6

\* a step of the generator while it is inside (or entering) wait_for_value
WfvStep ==
    /\ ppc \in {"run", "sleep"}
    /\ Cur.op = "wait_for_value"
    /\ <<ppc, pidx, result, welapsed, wsleeps, wreads>>'
         # <<ppc, pidx, result, welapsed, wsleeps, wreads>>

\* the call of wait_for_value finds the signal at the target value
C12_Step ==
    /\ WfvStep => sig' = sig
    /\ (WfvStep /\ ppc = "run" /\ sig = Cur.val) =>
          /\ ppc' # "sleep"
          /\ result' # "TimeoutError"
          /\ wsleeps' = 0
          /\ welapsed' = 0
          /\ pidx' = pidx + 1 \/ result' = "done"

\* C12: a wait_for_value whose first read equals the target value returns
\* without yielding a sleep and without raising TimeoutError, whatever the
\* timeout (0 included), and no step of wait_for_value changes the signal.
C12_ImmediateReturn == [][C12_Step]_vars

\* C12 witness: a call with timeout 0 returned without a sleep on its first
\* read
C12_Witness ==
    /\ plan[1] = "wait_for_value"
    /\ args.timeout = 0
    /\ result = "done"
    /\ wsleeps = 0
    /\ wreads = <<args.value>>

\* C13: wait_for_value raises TimeoutError only at a time t after its call
\* with timeout <= t <= timeout + poll_time, it sleeps no further once the
\* timeout has passed (so it raises at the next wake-up), the time spent is
\* the number of sleeps times poll_time, and it returns normally only on a
\* read that gave the target value.
C13_TimeoutWindow ==
    plan[1] = "wait_for_value" =>
        /\ result = "TimeoutError" =>
              /\ args.timeout <= welapsed
              /\ welapsed <= args.timeout + args.poll_time
              /\ welapsed = wsleeps * args.poll_time
        /\ ppc = "sleep" =>
              /\ welapsed <= args.timeout
              /\ welapsed = (wsleeps - 1) * args.poll_time
        /\ result = "done" =>
              /\ wreads # <<>>
              /\ wreads[Len(wreads)] = args.value
              /\ welapsed <= args.timeout

\* C13 witness: timeout 3 with poll_time 2 raised after two sleeps, at 4
C13_Witness ==
    /\ plan[1] = "wait_for_value"
    /\ result = "TimeoutError"
    /\ args.timeout = 3
    /\ args.poll_time = 2
    /\ wsleeps = 2
    /\ welapsed = 4

\* the latest recorded read of the watched signal (-1 when there is none)
LastRead == IF wreads = <<>> THEN -1 ELSE wreads[Len(wreads)]

\* C14: pulse_sync yields a trigger_and_read only when, since the move of
\* the step, it has read laser.power as 0 and after that as 1: the read that
\* ended the wait for 1 is never the first read of the step.
C14_LowThenHigh ==
    (plan[1] = "pulse_sync" /\ Running("trigger_and_read")) =>
        /\ Len(wreads) >= 2
        /\ wreads[Len(wreads)] = 1
        /\ wreads[Len(wreads) - 1] = 0

\* C14 witness: power read 1 when the step began, then 0, then 1, and the
\* trigger_and_read is about to be yielded
C14_Witness ==
    /\ plan[1] = "pulse_sync"
    /\ Running("trigger_and_read")
    /\ wreads = <<1, 0, 1>>

\* C15: passive_scan yields its trigger_and_read only after reading
\* adStatus as 2, reads only the motor and pulse_ID (never a detector),
\* reads once per move of the loop, and after a read goes on (to the next
\* move, or to unstaging) only after reading adStatus as 0.
C15_PassiveHandshake ==
    plan[1] = "passive_scan" =>
        /\ \A i \in Idx("trigger_and_read") : msgs[i].devs = <<motor, pulse_ID>>
        /\ \A i \in DOMAIN msgs :
              msgs[i].dev \in Range(Detectors(args)) => msgs[i].op \in {"stage", "unstage"}
        /\ Running("trigger_and_read") =>
              /\ LastRead = 2
              /\ Cardinality(Idx("trigger_and_read")) + 1 = Cardinality(LoopMvIdx)
        /\ (ppc = "run" /\ Cur.op # "wait_for_value" /\ Idx("trigger_and_read") # {}
              /\ msgs[Len(msgs)].op = "trigger_and_read") =>
              LastRead = 0

\* C15 witness: after a read that followed adStatus 2, adStatus was read as
\* 0 and the move of the next step is about to be yielded
C15_Witness ==
    /\ plan[1] = "passive_scan"
    /\ Running("mv")
    /\ Idx("trigger_and_read") # {}
    /\ wreads = <<2, 0>>

\* C16: the delivery thread holds the lock exactly between taking it and
\* the end of the swap, the sequencer exactly between taking it and the end
\* of the append; the set_finished loop runs without the lock; a trigger()
\* that reaches its with statement while the callback is in its loop takes
\* the lock at once unless it holds it already; and whoever holds the lock
\* can take its next step, so the two threads never block each other for good.
C16_LockMinimal ==
    /\ lock = "cb" <=> cpc \in {"locked", "swapped"}
    /\ lock = "seq" <=> tpc \in {"locked", "appended"}
    /\ cpc = "loop" => lock # "cb"
    /\ (cpc = "loop" /\ tpc = "created") => ENABLED TrigAcquire
    /\ lock = "cb" => ENABLED (CbSwap \/ CbRelease)
    /\ lock = "seq" => ENABLED (TrigAppend \/ TrigReturn)

\* C16 witness: trigger() holds the lock while the callback still has
\* statuses to finish
C16_Witness ==
    /\ cpc = "loop"
    /\ drained # <<>>
    /\ tpc = "locked"
    /\ lock = "seq"

\* C17: while no callback is running, every status in the pending list is
\* unresolved: set_finished has not been called on it and it has not timed
\* out.
C17_PendingUnresolved ==
    cpc = "idle" =>
        \A s \in Range(pending) : st[s].done = "no" /\ st[s].fin = <<>>

\* C18 (as claimed): in every plan the checkpoint of a step is yielded
\* before the move of that step, one checkpoint per step: at any time there
\* are as many checkpoints as moves of the loop, or one more (the step's
\* move is still to come).
C18_CheckpointBeforeMove ==
    plan[1] \in {"multi_scan", "pulse_sync", "passive_scan"} =>
        /\ Cardinality(Idx("checkpoint")) >= Cardinality(LoopMvIdx)
        /\ Cardinality(Idx("checkpoint")) <= Cardinality(LoopMvIdx) + 1

\* C19: a plan called with steps = 1 yields no message at all: it is left
\* by ZeroDivisionError at its first statement.
C19_NoMessageOnOneStep ==
    (plan[1] \in {"multi_scan", "pulse_sync", "passive_scan"} /\ args.steps = 1) =>
        /\ msgs = <<>>
        /\ ppc \in {"start", "raised"}
        /\ ppc = "raised" => result = "ZeroDivisionError"

\* C19 witness: passive_scan with two detectors and steps = 1 has failed
C19_Witness ==
    /\ plan[1] = "passive_scan"
    /\ args.steps = 1
    /\ args.ndet = 2
    /\ result = "ZeroDivisionError"

\* C20: under LiveSpec every status appended by trigger() while a swap is
\* still to come (fewer than MaxPulse swaps done) is eventually out of the
\* pending list with set_finished called on it; and a status is in the
\* pending list only as long as no callback has swapped the list since it
\* was appended.
C20_EventuallyFinished ==
    /\ [](\A s \in Range(pending) : st[s].appSwap = Swaps)
    /\ \A s \in 1..MaxTrig :
          (s \in Appended /\ st[s].appSwap < MaxPulse)
             ~> (s \in DOMAIN st /\ s \notin Range(pending) /\ st[s].fin # <<>>)

\* C20 witness: a status appended after the first swap has been taken by a
\* later callback, which called set_finished on it
C20_Witness ==
    \E s \in DOMAIN st :
        /\ st[s].appSwap >= 1
        /\ s \notin Range(pending)
        /\ st[s].fin # <<>>
        /\ st[s].fin[1] > st[s].appSwap

====
